---- MODULE Spec2Model ----
(***************************************************************************)
(* Vehicle Check-It: the App component (state, handlers, effects), the     *)
(* persistent store adapter (loadState / saveState / safeParse), the       *)
(* import codec (parseImportPayload) and the draft engine.                 *)
(*                                                                         *)
(* JSON objects are records; a field the object does not carry is a field  *)
(* the record does not have ("f" \in DOMAIN r is the test for presence).    *)
(* Inside a document (a file or a stored string) an array-valued `checks`  *)
(* is a tagged value, so that Array.isArray is a test the model performs.  *)
(* Ids produced by uid() are the naturals 1, 2, ... drawn from uidSeq; ids *)
(* found in foreign documents are taken from 100 upwards.                  *)
(***************************************************************************)
EXTENDS Integers, Sequences, FiniteSets, TLC

VARIABLES
    profile,           \* useState(loadProfile())
    appState,          \* useState(loadState())
    date,              \* useState(isoToday())
    vehicleId,         \* active vehicle id, "" when none
    odometerText,
    generalNotesText,
    draft,             \* the live checklist being filled in
    localStorage,      \* [app |-> raw string under KEY, profile |-> raw string under PROFILE_KEY]
    reader,            \* the FileReader of importJSON together with the closure of its onload
    alertMsg,          \* what window.alert showed during the last step ("" when nothing)
    now,               \* the clock read by new Date(); it ticks once per handler
    uidSeq,            \* number of ids uid() has produced
    lastOp,            \* the handler that ran last, with its inputs
    budget,            \* the time at which the behaviour is cut off
    vehicleModal,      \* vehicleModalMode, vehicleEditId and vehicleDraft of the vehicle manager
    download,          \* the file exportJSON wrote last
    rejects,           \* the keys under which the store refuses a write (quota)
    savedView          \* savedOpen and savedId of the saved-check viewer

vars == <<profile, appState, date, vehicleId, odometerText, generalNotesText,
          draft, localStorage, reader, alertMsg, now, uidSeq, lastOp, budget,
          vehicleModal, download, rejects, savedView>>

----------------------------------------------------------------------------
(* Bounds *)

MaxTime == 4         \* clock value at which a behaviour of the whole app is cut off
MaxDraftTime == 5    \* the same, for the behaviours of the draft engine alone
MaxImportTime == 6   \* the same, for the behaviours of import and history alone
MaxUpdateTime == 4   \* the same, for updateItem called as a function
MaxHistoryTime == 6  \* the same, for the history under save, delete and single imports
MaxRoundTripTime == 6  \* the same, for export and import of the exported file
MaxVehicleTime == 10   \* the same, for the vehicle manager
MaxBootTime == 4       \* the same, for opening the app on any store
MaxStoreTime == 4      \* the same, for the app on a store that refuses writes
MaxAppTime == 5        \* the same, for history, import and vehicle manager together
MaxViewerTime == 6     \* the same, for the saved-check viewer over a changing history

(* Program constants *)

TEMPLATE_REV == 9
Undefined == -1    \* the value of a missing id

----------------------------------------------------------------------------
(* Generic helpers *)

Range(s) == {s[i] : i \in 1..Len(s)}

Has(obj, f) == f \in DOMAIN obj

IdOf(obj) == IF Has(obj, "id") THEN obj.id ELSE Undefined

Truthy(id) == id # Undefined /\ id # 0

RECURSIVE Filter(_, _)
Filter(s, keepIds) ==
    IF s = <<>> THEN <<>>
    ELSE IF IdOf(Head(s)) \in keepIds
         THEN <<Head(s)>> \o Filter(Tail(s), keepIds)
         ELSE Filter(Tail(s), keepIds)

\* a filter that stops at the first check with the id
RECURSIVE WithoutIdAndAfter(_, _)
WithoutIdAndAfter(checks, id) ==
    IF checks = <<>> \/ IdOf(Head(checks)) = id THEN <<>>
    ELSE <<Head(checks)>> \o WithoutIdAndAfter(Tail(checks), id)

\* (checks || []).filter((c) => c.id !== id)
WithoutId(checks, id) ==
    Filter(checks, {IdOf(checks[i]) : i \in 1..Len(checks)} \ {id})

Merge(base, over) ==
    [f \in DOMAIN base \cup DOMAIN over |->
        IF f \in DOMAIN over THEN over[f] ELSE base[f]]

----------------------------------------------------------------------------
(* Documents: strings held by the store or by a file *)

Null == [isNull |-> TRUE]                  \* the JSON value null
IsNull(v) == Has(v, "isNull")

Arr(s) == [isArray |-> TRUE, elems |-> s]  \* an array inside a document
NotArr == [isArray |-> FALSE]              \* a truthy value that is no array
IsArray(v) == Has(v, "isArray") /\ v.isArray

Prim == [prim |-> TRUE]                    \* a truthy primitive where an object is expected
IsObject(v) == ~Has(v, "prim")

NoItem == [kind |-> "null"]                \* getItem found nothing
EmptyText == [kind |-> "empty"]            \* the empty string
BadText == [kind |-> "bad"]                \* text that is not JSON
Text(v) == [kind |-> "json", val |-> v]    \* the text of the JSON value v

\* JSON.stringify of an AppState: its checks become an array of the document
ToDoc(state) == [state EXCEPT !.checks = Arr(@)]

\* an accepted data object as the in-memory AppState it is used as
FromDoc(data) == [data EXCEPT !.checks = @.elems]

\* a safeParse without its try/catch: what JSON.parse throws comes out
safeParseUnguarded(raw, fallback) ==
    IF raw.kind = "json" THEN raw.val
    ELSE IF raw.kind = "bad" THEN [ok |-> FALSE, message |-> "SyntaxError"]
    ELSE fallback

\* safeParse(raw, fallback): the fallback for no text and for text that does not parse
safeParse(raw, fallback) ==
    IF raw.kind = "json" THEN raw.val ELSE fallback

----------------------------------------------------------------------------
(* Template and profile defaults *)

APP_META == [appId |-> "vehiclecheckit", version |-> "v1"]

\* defaultTemplate(): the first two sections, cut to three items; every id is a fresh
\* uid, taken in source order starting after `base`
defaultTemplate(base) ==
    [rev |-> TEMPLATE_REV,
     name |-> "Default Vehicle Check",
     sections |-> <<
        [id |-> base + 1, title |-> "Exterior",
         items |-> << [id |-> base + 2, label |-> "Tyres (pressure / condition)", severity |-> "ok"],
                      [id |-> base + 3, label |-> "Lights (all working)", severity |-> "ok"] >>],
        [id |-> base + 4, title |-> "Interior",
         items |-> << [id |-> base + 5, label |-> "Cabin clean", severity |-> "ok"] >>] >>]

TemplateUids == 5      \* uid() calls of one defaultTemplate()

defaultProfile ==
    [org |-> "ToolStack", user |-> "", language |-> "EN", logo |-> "",
     vehicles |-> << [id |-> "bmw-530i", plate |-> "", make |-> "BMW", model |-> "530i"],
                     [id |-> "vito-119", plate |-> "", make |-> "Mercedes", model |-> "Vito 119"] >>]

\* loadProfile(): safeParse(localStorage.getItem(PROFILE_KEY), null) || defaults
loadProfile(raw) ==
    LET parsed == safeParse(raw, Null)
    IN  IF IsNull(parsed) THEN defaultProfile ELSE parsed

\* profile.vehicles || []
Vehicles(p) == IF Has(p, "vehicles") THEN p.vehicles ELSE <<>>

\* profile.vehicles?.[0]?.id || ""
FirstVehicleId(p) == IF Vehicles(p) = <<>> THEN "" ELSE Vehicles(p)[1].id

\* formatVehicleLabel(vehicles.find((v) => v.id === vehicleId) || null)
formatVehicleLabel(vs, vid) ==
    IF \E k \in 1..Len(vs) : vs[k].id = vid
    THEN LET v == vs[CHOOSE k \in 1..Len(vs) : vs[k].id = vid /\ \A j \in 1..(k-1) : vs[j].id # vid]
         IN  <<v.plate, v.make, v.model>>
    ELSE <<"-">>

\* blankVehicle(), as far as saveVehicle reads it
blankVehicle == [plate |-> "", make |-> "", model |-> ""]

\* the vehicle manager as the useState initialisers leave it
ModalAtRest == [mode |-> "list", editId |-> "", draft |-> blankVehicle]

----------------------------------------------------------------------------
(* Persistent store adapter *)

\* Array.isArray(parsed.checks) ? parsed.checks : []
StoredChecks(parsed) ==
    IF Has(parsed, "checks") /\ IsArray(parsed.checks) THEN parsed.checks.elems ELSE <<>>

\* parsed?.template?.rev, Undefined when the record has no template or the template no rev
StoredRev(parsed) ==
    IF Has(parsed, "template") /\ Has(parsed.template, "rev") THEN parsed.template.rev ELSE Undefined

\* { ...(meta || fallback), updatedAt: new Date().toISOString() }
Stamp(meta, t) == Merge(meta, [updatedAt |-> t])

StoredMeta(parsed, t) ==
    Stamp(IF Has(parsed, "meta") THEN parsed.meta ELSE APP_META, t)

\* the `base` object of loadState()
baseState(base, t) ==
    [meta |-> Stamp(APP_META, t), template |-> defaultTemplate(base), checks |-> <<>>]

\* a loadState that keeps whatever template the record carries
loadStateNoGate(raw, base, t) ==
    LET parsed == safeParse(raw, Null)
    IN  IF IsNull(parsed) THEN baseState(base, t)
        ELSE Merge(Merge(baseState(base, t), parsed),
                   [meta |-> StoredMeta(parsed, t), checks |-> StoredChecks(parsed)])

\* a loadState that starts the history afresh when it replaces the template
loadStateFreshOnMismatch(raw, base, t) ==
    LET parsed == safeParse(raw, Null)
    IN  IF IsNull(parsed) THEN baseState(base, t)
        ELSE IF StoredRev(parsed) # TEMPLATE_REV
        THEN Merge(baseState(base, t),
                   [meta |-> StoredMeta(parsed, t),
                    template |-> defaultTemplate(base + TemplateUids)])
        ELSE Merge(Merge(baseState(base, t), parsed),
                   [meta |-> StoredMeta(parsed, t), checks |-> StoredChecks(parsed)])

\* loadState(): `base` is the number of uids used before the call, t the time of the call
loadState(raw, base, t) ==
    LET parsed == safeParse(raw, Null)
    IN  IF IsNull(parsed) THEN baseState(base, t)
        ELSE IF StoredRev(parsed) # TEMPLATE_REV
        THEN Merge(baseState(base, t),
                   [meta |-> StoredMeta(parsed, t),
                    checks |-> StoredChecks(parsed),
                    template |-> defaultTemplate(base + TemplateUids)])
        ELSE Merge(Merge(baseState(base, t), parsed),
                   [meta |-> StoredMeta(parsed, t), checks |-> StoredChecks(parsed)])

\* uid() calls of one loadState()
loadStateUids(raw) ==
    LET parsed == safeParse(raw, Null)
    IN  IF ~IsNull(parsed) /\ StoredRev(parsed) # TEMPLATE_REV THEN 2 * TemplateUids ELSE TemplateUids

\* a saveState whose setItem is not guarded: when the store refuses the key the call
\* throws, the update that called it is lost and the AppState stays what it is
saveStateUnguarded(state, t) ==
    IF "app" \in rejects THEN appState
    ELSE Merge(state, [meta |-> Stamp(IF Has(state, "meta") THEN state.meta ELSE <<>>, t)])

\* saveState(state): the state stamped with the time. Its own setItem(KEY, ...) sits in a
\* try/catch and writes what the persist effect of the same update writes (see Commit).
saveState(state, t) ==
    Merge(state, [meta |-> Stamp(IF Has(state, "meta") THEN state.meta ELSE <<>>, t)])

----------------------------------------------------------------------------
(* Draft engine *)

Severities == {"ok", "note", "issue"}

\* a draft whose items start ticked
NewDraftDone(t, d, v) ==
    [date |-> d, vehicleId |-> v,
     sections |-> [k \in 1..Len(t.sections) |->
        [id |-> t.sections[k].id, title |-> t.sections[k].title,
         items |-> [j \in 1..Len(t.sections[k].items) |->
            [id |-> t.sections[k].items[j].id, label |-> t.sections[k].items[j].label,
             severity |-> "ok", note |-> "", done |-> TRUE]]]]]

\* the draft a template gives: the useState initialiser of `draft`, and resetDraft()
NewDraft(t, d, v) ==
    [date |-> d, vehicleId |-> v,
     sections |-> [k \in 1..Len(t.sections) |->
        [id |-> t.sections[k].id, title |-> t.sections[k].title,
         items |-> [j \in 1..Len(t.sections[k].items) |->
            [id |-> t.sections[k].items[j].id, label |-> t.sections[k].items[j].label,
             severity |-> "ok", note |-> "", done |-> FALSE]]]]]

\* an updateItem that patches every item of the matching section
UpdateItemWholeSection(d, sectionId, itemId, patch) ==
    [d EXCEPT !.sections = [k \in 1..Len(d.sections) |->
        IF d.sections[k].id # sectionId THEN d.sections[k]
        ELSE [d.sections[k] EXCEPT !.items = [j \in 1..Len(d.sections[k].items) |->
                Merge(d.sections[k].items[j], patch)]]]]

\* updateItem(sectionId, itemId, patch) as the draft it gives
UpdateItem(d, sectionId, itemId, patch) ==
    [d EXCEPT !.sections = [k \in 1..Len(d.sections) |->
        IF d.sections[k].id # sectionId THEN d.sections[k]
        ELSE [d.sections[k] EXCEPT !.items = [j \in 1..Len(d.sections[k].items) |->
                IF d.sections[k].items[j].id # itemId THEN d.sections[k].items[j]
                ELSE Merge(d.sections[k].items[j], patch)]]]]

\* a draft write that assigns into the arrays it was given: a check that holds them follows
HistoryWrittenInPlace(a, old, new) ==
    [a EXCEPT !.checks = [i \in 1..Len(@) |->
        IF Has(@[i], "sections") /\ @[i].sections = old
        THEN [@[i] EXCEPT !.sections = new] ELSE @[i]]]

\* What a write of the draft leaves of the AppState. A saved check holds the very array
\* that was draft.sections; updateItem, resetDraft and the sync effect build their result
\* with map, spread and literals and assign into no array or object they were given, so
\* nothing a check holds is touched.
HistoryAfterDraftWrite(a, old, new) == a

\* ItemCard.onSeverityChange(sev): the patch it hands to updateItem
SeverityPatchKeepNote(sev) == [severity |-> sev]

SeverityPatch(sev) ==
    IF sev = "ok" THEN [severity |-> "ok", note |-> ""] ELSE [severity |-> sev]

\* the memoised counters of the draft: for (const s of sections) for (const it of s.items) ...
RECURSIVE IssuesIn(_)
IssuesIn(items) ==
    IF items = <<>> THEN 0
    ELSE (IF Head(items).severity = "issue" THEN 1 ELSE 0) + IssuesIn(Tail(items))

RECURSIVE FindingsIn(_)
FindingsIn(items) ==
    IF items = <<>> THEN 0
    ELSE (IF Head(items).severity # "ok" THEN 1 ELSE 0) + FindingsIn(Tail(items))

RECURSIVE DoneIn(_)
DoneIn(items) ==
    IF items = <<>> THEN 0
    ELSE (IF Head(items).done THEN 1 ELSE 0) + DoneIn(Tail(items))

\* a counter that takes every finding for an issue
RECURSIVE issueCountWithNotes(_)
issueCountWithNotes(sections) ==
    IF sections = <<>> THEN 0
    ELSE FindingsIn(Head(sections).items) + issueCountWithNotes(Tail(sections))

RECURSIVE issueCount(_)
issueCount(sections) ==
    IF sections = <<>> THEN 0
    ELSE IssuesIn(Head(sections).items) + issueCount(Tail(sections))

RECURSIVE doneCount(_)
doneCount(sections) ==
    IF sections = <<>> THEN 0
    ELSE DoneIn(Head(sections).items) + doneCount(Tail(sections))

RECURSIVE totalItems(_)
totalItems(sections) ==
    IF sections = <<>> THEN 0
    ELSE Len(Head(sections).items) + totalItems(Tail(sections))

\* String(text || "").trim() on the texts the model types
Trim(text) == IF text = " 123 " THEN "123" ELSE text

----------------------------------------------------------------------------
(* Import codec *)

Thrown(msg) == [ok |-> FALSE, message |-> msg]

ProfileOf(parsed) == IF Has(parsed, "profile") THEN parsed.profile ELSE Null

\* a parseImportPayload that takes an empty data.checks for no checks at all
parseImportPayloadNonEmpty(text) ==
    IF text.kind # "json" THEN Thrown("SyntaxError")
    ELSE LET parsed == text.val
         IN  IF ~IsNull(parsed) /\ Has(parsed, "data") /\ Has(parsed.data, "checks")
                /\ IsArray(parsed.data.checks) /\ parsed.data.checks.elems # <<>>
             THEN [ok |-> TRUE, kind |-> "full", profile |-> ProfileOf(parsed), data |-> parsed.data]
             ELSE IF ~IsNull(parsed) /\ Has(parsed, "check") /\ ~IsNull(parsed.check)
                     /\ IsObject(parsed.check)
             THEN [ok |-> TRUE, kind |-> "check", profile |-> ProfileOf(parsed), check |-> parsed.check]
             ELSE Thrown("Invalid import file")

\* a parseImportPayload that looks for a check object first
parseImportPayloadCheckFirst(text) ==
    IF text.kind # "json" THEN Thrown("SyntaxError")
    ELSE LET parsed == text.val
         IN  IF ~IsNull(parsed) /\ Has(parsed, "check") /\ ~IsNull(parsed.check)
                /\ IsObject(parsed.check)
             THEN [ok |-> TRUE, kind |-> "check", profile |-> ProfileOf(parsed), check |-> parsed.check]
             ELSE IF ~IsNull(parsed) /\ Has(parsed, "data") /\ Has(parsed.data, "checks")
                     /\ IsArray(parsed.data.checks)
             THEN [ok |-> TRUE, kind |-> "full", profile |-> ProfileOf(parsed), data |-> parsed.data]
             ELSE Thrown("Invalid import file")

\* parseImportPayload(text): what it returns, or what it throws
parseImportPayload(text) ==
    IF text.kind # "json" THEN Thrown("SyntaxError")
    ELSE LET parsed == text.val
         IN  IF ~IsNull(parsed) /\ Has(parsed, "data") /\ Has(parsed.data, "checks")
                /\ IsArray(parsed.data.checks)
             THEN [ok |-> TRUE, kind |-> "full", profile |-> ProfileOf(parsed), data |-> parsed.data]
             ELSE IF ~IsNull(parsed) /\ Has(parsed, "check") /\ ~IsNull(parsed.check)
                     /\ IsObject(parsed.check)
             THEN [ok |-> TRUE, kind |-> "check", profile |-> ProfileOf(parsed), check |-> parsed.check]
             ELSE Thrown("Invalid import file")

----------------------------------------------------------------------------
(* The documents the model reads: stored records of earlier runs, and import files *)

Today == "2026-01-07"
Dates == {"2026-01-07", "2026-01-08"}
OdometerTexts == {"", " 123 "}
NotesTexts == {"", "Hello"}
NoteTexts == {"", "Low pressure"}

\* checks written by another installation, created before this one started (time 0)
K1 == [id |-> 100, createdAt |-> 0, date |-> "2025-12-30", odometer |-> "1"]
K1b == [id |-> 100, createdAt |-> 0, date |-> "2025-12-31", odometer |-> "2"]
K2 == [id |-> 101, createdAt |-> 0, date |-> "2025-12-29", odometer |-> "3"]
KNoId == [createdAt |-> 0, date |-> "2025-12-28", odometer |-> "4"]
KFalsyId == [id |-> 0, createdAt |-> 0, date |-> "2025-12-27", odometer |-> "5"]

\* a template of another installation, at revision `rev`
ForeignTemplate(rev) ==
    [rev |-> rev, name |-> "Default Vehicle Check",
     sections |-> << [id |-> 201, title |-> "Exterior",
                      items |-> << [id |-> 202, label |-> "Body damage check", severity |-> "ok"] >>] >>]

ForeignTemplateNoRev ==
    [name |-> "Default Vehicle Check",
     sections |-> << [id |-> 201, title |-> "Exterior",
                      items |-> << [id |-> 202, label |-> "Body damage check", severity |-> "ok"] >>] >>]

PX == [user |-> "x"]
PY == [org |-> "ToolStack", user |-> "y", language |-> "DE", logo |-> "",
       vehicles |-> << [id |-> "golf", plate |-> "M-AB 1", make |-> "VW", model |-> "Golf"] >>]

StoredAppRecords ==
    { NoItem, BadText,
      Text([meta |-> Stamp(APP_META, 0), template |-> ForeignTemplate(TEMPLATE_REV - 1), checks |-> Arr(<<K1, K2>>)]),
      Text([meta |-> Stamp(APP_META, 0), template |-> ForeignTemplateNoRev, checks |-> Arr(<<K2, K1>>)]),
      Text([meta |-> Stamp(APP_META, 0), template |-> ForeignTemplate(TEMPLATE_REV), checks |-> Arr(<<K1>>)]),
      Text([meta |-> Stamp(APP_META, 0), checks |-> Arr(<<K2>>)]),
      Text([template |-> ForeignTemplate(TEMPLATE_REV), checks |-> NotArr]) }

StoredProfileRecords == { NoItem }

\* payloads for parseImportPayload: every way to have or not to have data, data.checks,
\* check and profile (<<>> is the object part that adds no field)
DataParts ==
    { <<>>, [data |-> Null], [data |-> Prim], [data |-> [exportedBy |-> "x"]],
      [data |-> [checks |-> Null]], [data |-> [checks |-> NotArr]],
      [data |-> [checks |-> Arr(<<>>)]], [data |-> [checks |-> Arr(<<K1>>)]] }
CheckParts ==
    { <<>>, [check |-> Null], [check |-> Prim], [check |-> K1], [check |-> KNoId],
      [check |-> Arr(<<>>)] }
ProfileParts == { <<>>, [profile |-> PX], [profile |-> PY] }

ParsePayloads ==
    { BadText, Text(Null) } \cup
    { Text(Merge(Merge(d, c), pr)) : d \in DataParts, c \in CheckParts, pr \in ProfileParts }

\* whatever the two keys may hold when the app opens
AnyAppRecords == StoredAppRecords \cup { EmptyText, Text(Null) }
AnyProfileRecords == { NoItem, EmptyText, BadText, Text(Null), Text(PY) }

ImportFiles ==
    { BadText,
      Text(Null),
      Text([exportedAt |-> 0]),
      Text([exportedAt |-> 0, profile |-> PY,
            data |-> [meta |-> Stamp(APP_META, 0), template |-> ForeignTemplate(TEMPLATE_REV), checks |-> Arr(<<K1, K2>>)]]),
      Text([data |-> [checks |-> Arr(<<>>)]]),
      Text([data |-> [template |-> ForeignTemplate(TEMPLATE_REV), checks |-> Arr(<<K1, K1b>>)]]),
      Text([profile |-> PX,
            data |-> [meta |-> Stamp(APP_META, 0), template |-> ForeignTemplate(TEMPLATE_REV - 1), checks |-> Arr(<<K2>>)]]),
      Text([data |-> [checks |-> NotArr]]),
      Text([data |-> [checks |-> NotArr], check |-> K2]),
      Text([data |-> [checks |-> Arr(<<K2>>)], check |-> K1]),
      Text([profile |-> PX, check |-> K1]),
      Text([check |-> K1b]),
      Text([profile |-> PY, check |-> K2]),
      Text([profile |-> PY, check |-> KNoId]),
      Text([profile |-> PY, check |-> KFalsyId]),
      Text([check |-> Prim]) }

----------------------------------------------------------------------------
(* Effects, run after the render a handler causes *)

VehicleIds(p) == {Vehicles(p)[k].id : k \in 1..Len(Vehicles(p))}

\* useEffect(..., [vehicles]): keep vehicleId valid
KeepVehicleValid(p, vid) ==
    IF Vehicles(p) = <<>> THEN vid
    ELSE IF vid \in VehicleIds(p) THEN vid ELSE Vehicles(p)[1].id

\* useEffect(() => setDraft((d) => ({ ...d, date, vehicleId })), [date, vehicleId])
SyncDraft(dr, d, v) ==
    IF <<d, v>> # <<date, vehicleId>> THEN [dr EXCEPT !.date = d, !.vehicleId = v] ELSE dr

\* The state after a handler's updates and the effects of the render that follows:
\* p, a, d, v, o, g, dr are what the handler's set-calls leave; profileSet tells that
\* setProfile was given a new object. A persist effect runs when its state changed, and
\* its write is dropped (try/catch) when the store refuses the key.
\* persist effects of which only the one of the app record is there
WrittenAppOnly(key, changed, text) ==
    IF changed /\ key = "app" /\ key \notin rejects THEN text ELSE localStorage[key]

Written(key, changed, text) ==
    IF changed /\ key \notin rejects THEN text ELSE localStorage[key]

\* useState(false), useState(null): the viewer closed, no check selected
NoSavedId == -2
SavedViewAtRest == [open |-> FALSE, id |-> NoSavedId]



\* useEffect(..., [savedOpen, savedId, appState.checks]): close the viewer when the
\* selected check is gone
SavedViewEffect(view, checks) ==
    IF view.open /\ view.id # NoSavedId /\ Truthy(view.id)
         /\ ~\E i \in 1..Len(checks) : IdOf(checks[i]) = view.id
    THEN SavedViewAtRest ELSE view

\* the commit of a handler that also set the state of the viewer to `view`
CommitView(p, a, d, v, o, g, dr, profileSet, view) ==
    LET vid == IF profileSet THEN KeepVehicleValid(p, v) ELSE v
    IN  /\ profile' = p
        /\ appState' = a
        /\ date' = d
        /\ vehicleId' = vid
        /\ odometerText' = o
        /\ generalNotesText' = g
        /\ draft' = SyncDraft(dr, d, vid)
        /\ localStorage' = [app |-> Written("app", a # appState, Text(ToDoc(a))),
                            profile |-> Written("profile", profileSet /\ p # profile, Text(p))]
        /\ now' = now + 1
        /\ budget' = budget
        /\ rejects' = rejects
        /\ savedView' = SavedViewEffect(view, a.checks)

Commit(p, a, d, v, o, g, dr, profileSet) ==
    CommitView(p, a, d, v, o, g, dr, profileSet, savedView)

CanRun == now < budget

\* the store starts or stops refusing writes under some keys (quota, private mode)
StoreRejects(keys) ==
    /\ rejects # keys
    /\ rejects' = keys
    /\ lastOp' = [op |-> "storeRejects"]
    /\ UNCHANGED <<profile, appState, date, vehicleId, odometerText, generalNotesText,
                   draft, localStorage, reader, alertMsg, now, uidSeq, budget,
                   vehicleModal, download, savedView>>

----------------------------------------------------------------------------
(* Construction: the useState initialisers and the effects of the first render *)

Boot(rawApp, rawProfile, base, t, limit) ==
    LET p == loadProfile(rawProfile)
        a == loadState(rawApp, base, t)
        v == FirstVehicleId(p)
    IN  /\ profile = p
        /\ appState = a
        /\ date = Today
        /\ vehicleId = v
        /\ odometerText = ""
        /\ generalNotesText = ""
        /\ draft = NewDraft(a.template, Today, v)
        /\ localStorage = [app |-> Text(ToDoc(a)), profile |-> Text(p)]
        /\ reader = [readyState |-> "EMPTY"]
        /\ alertMsg = ""
        /\ now = t + 1
        /\ uidSeq = base + loadStateUids(rawApp)
        /\ lastOp = [op |-> "load", raw |-> rawApp, rawProfile |-> rawProfile]
        /\ budget = limit
        /\ vehicleModal = ModalAtRest
        /\ download = [file |-> NoItem]
        /\ rejects = {}
        /\ savedView = SavedViewAtRest

\* the app opens on the records an earlier run (of this or an older revision) left
InitStored(limit) ==
    \E rawApp \in StoredAppRecords, rawProfile \in StoredProfileRecords :
        Boot(rawApp, rawProfile, 0, 0, limit)

\* the app opens on a store that holds anything
InitAnyStore(limit) ==
    \E rawApp \in AnyAppRecords, rawProfile \in AnyProfileRecords :
        Boot(rawApp, rawProfile, 0, 0, limit)

\* the app opens for the first time
InitFresh(limit) == Boot(NoItem, NoItem, 0, 0, limit)

Init == InitFresh(MaxTime)

\* The page is loaded again: everything is rebuilt from the two stored records.
Reload ==
    /\ CanRun
    /\ LET p == loadProfile(localStorage.profile)
           a == loadState(localStorage.app, uidSeq, now)
           v == FirstVehicleId(p)
       IN  /\ profile' = p
           /\ appState' = a
           /\ date' = Today
           /\ vehicleId' = v
           /\ odometerText' = ""
           /\ generalNotesText' = ""
           /\ draft' = NewDraft(a.template, Today, v)
           /\ localStorage' = [app |-> Written("app", TRUE, Text(ToDoc(a))),
                               profile |-> Written("profile", TRUE, Text(p))]
    /\ reader' = [readyState |-> "EMPTY"]
    /\ alertMsg' = ""
    /\ now' = now + 1
    /\ uidSeq' = uidSeq + loadStateUids(localStorage.app)
    /\ lastOp' = [op |-> "load", raw |-> localStorage.app, rawProfile |-> localStorage.profile]
    /\ budget' = budget
    /\ vehicleModal' = ModalAtRest
    /\ savedView' = SavedViewAtRest
    /\ UNCHANGED <<download, rejects>>

----------------------------------------------------------------------------
(* Form fields *)

SetDate(d) ==
    /\ CanRun
    /\ Commit(profile, appState, d, vehicleId, odometerText, generalNotesText, draft, FALSE)
    /\ alertMsg' = ""
    /\ lastOp' = [op |-> "setDate"]
    /\ UNCHANGED <<reader, uidSeq, vehicleModal, download>>

\* <select value={vehicleId} onChange={(e) => setVehicleId(e.target.value)}>
SetVehicleId(v) ==
    /\ CanRun
    /\ v \in VehicleIds(profile)
    /\ Commit(profile, appState, date, v, odometerText, generalNotesText, draft, FALSE)
    /\ alertMsg' = ""
    /\ lastOp' = [op |-> "setVehicleId"]
    /\ UNCHANGED <<reader, uidSeq, vehicleModal, download>>

SetOdometerText(text) ==
    /\ CanRun
    /\ Commit(profile, appState, date, vehicleId, text, generalNotesText, draft, FALSE)
    /\ alertMsg' = ""
    /\ lastOp' = [op |-> "setOdometerText"]
    /\ UNCHANGED <<reader, uidSeq, vehicleModal, download>>

SetGeneralNotesText(text) ==
    /\ CanRun
    /\ Commit(profile, appState, date, vehicleId, odometerText, text, draft, FALSE)
    /\ alertMsg' = ""
    /\ lastOp' = [op |-> "setGeneralNotesText"]
    /\ UNCHANGED <<reader, uidSeq, vehicleModal, download>>

----------------------------------------------------------------------------
(* Item cards *)

\* updateItem(sectionId, itemId, patch) called with any arguments
UpdateItemCall(sectionId, itemId, patch) ==
    /\ CanRun
    /\ LET dr == UpdateItem(draft, sectionId, itemId, patch)
       IN  Commit(profile, HistoryAfterDraftWrite(appState, draft.sections, dr.sections),
                  date, vehicleId, odometerText, generalNotesText, dr, FALSE)
    /\ alertMsg' = ""
    /\ lastOp' = [op |-> "updateItem", sectionId |-> sectionId, itemId |-> itemId, patch |-> patch]
    /\ UNCHANGED <<reader, uidSeq, vehicleModal, download>>

\* the card of item j of section k, as rendered from the draft
CardHandler(k, j, patch, name) ==
    /\ CanRun
    /\ LET dr == UpdateItem(draft, draft.sections[k].id, draft.sections[k].items[j].id, patch)
       IN  Commit(profile, HistoryAfterDraftWrite(appState, draft.sections, dr.sections),
                  date, vehicleId, odometerText, generalNotesText, dr, FALSE)
    /\ alertMsg' = ""
    /\ lastOp' = [op |-> name, k |-> k, j |-> j, patch |-> patch,
                  before |-> draft.sections[k].items[j]]
    /\ UNCHANGED <<reader, uidSeq, vehicleModal, download>>

\* checkbox onChange
ToggleDone(k, j) ==
    CardHandler(k, j, [done |-> ~draft.sections[k].items[j].done], "toggleDone")

\* select onChange
OnSeverityChange(k, j, sev) ==
    CardHandler(k, j, SeverityPatch(sev), "onSeverityChange")

\* textarea onBlur, after any typing: the textarea exists only while severity is not "ok"
OnNoteBlur(k, j, text) ==
    /\ draft.sections[k].items[j].severity # "ok"
    /\ CardHandler(k, j, [note |-> text], "onNoteBlur")

----------------------------------------------------------------------------
(* Draft and history *)

\* resetDraft() run with the template, date and vehicle of closure c: the draft and the
\* two texts it leaves, or no change when reading t.sections throws
ResetThrows(c) == ~Has(c.appState, "template")

DraftAfterReset(c) ==
    IF ResetThrows(c) THEN draft ELSE NewDraft(c.appState.template, c.date, c.vehicleId)

TextAfterReset(c, text) == IF ResetThrows(c) THEN text ELSE ""

\* the values a handler of the current render closes over
Closure == [profile |-> profile, appState |-> appState, date |-> date, vehicleId |-> vehicleId]

ResetDraft ==
    /\ CanRun
    /\ Commit(profile,
              HistoryAfterDraftWrite(appState, draft.sections, DraftAfterReset(Closure).sections),
              date, vehicleId,
              TextAfterReset(Closure, odometerText), TextAfterReset(Closure, generalNotesText),
              DraftAfterReset(Closure), FALSE)
    /\ alertMsg' = ""
    /\ lastOp' = [op |-> "resetDraft", threw |-> ResetThrows(Closure)]
    /\ UNCHANGED <<reader, uidSeq, vehicleModal, download>>

\* uid(): crypto.randomUUID(), or prefix-time-random; a value that no earlier call gave
\* and that no document holds
uid == uidSeq + 1

\* the check saveCheck() builds
NewCheck ==
    [id |-> uid,
     createdAt |-> now,
     date |-> date,
     vehicleId |-> vehicleId,
     vehicleLabel |-> formatVehicleLabel(Vehicles(profile), vehicleId),
     odometer |-> Trim(odometerText),
     generalNotes |-> Trim(generalNotesText),
     sections |-> draft.sections,
     summary |-> [totalItems |-> totalItems(draft.sections),
                  doneCount |-> doneCount(draft.sections),
                  issueCount |-> issueCount(draft.sections)]]

\* a history that takes the new check at its tail
PrependAtTail(check, checks) == checks \o <<check>>

\* [check, ...(prev.checks || [])]
Prepend(check, checks) == <<check>> \o checks

SaveCheck ==
    /\ CanRun
    /\ Commit(profile,
              saveState([appState EXCEPT !.checks = Prepend(NewCheck, @)], now),
              date, vehicleId,
              TextAfterReset(Closure, odometerText), TextAfterReset(Closure, generalNotesText),
              DraftAfterReset(Closure), FALSE)
    /\ alertMsg' = ""
    /\ uidSeq' = uidSeq + 1
    /\ lastOp' = [op |-> "saveCheck", id |-> uid, threw |-> ResetThrows(Closure)]
    /\ UNCHANGED <<reader, vehicleModal, download>>

\* deleteCheck(id) on a listed check; ok is the answer to window.confirm
DeleteCheck(id, ok) ==
    /\ CanRun
    /\ Commit(profile,
              IF ok THEN saveState([appState EXCEPT !.checks = WithoutId(@, id)], now) ELSE appState,
              date, vehicleId, odometerText, generalNotesText, draft, FALSE)
    /\ alertMsg' = ""
    /\ lastOp' = [op |-> "deleteCheck", id |-> id, ok |-> ok]
    /\ UNCHANGED <<reader, uidSeq, vehicleModal, download>>

----------------------------------------------------------------------------
(* Vehicle manager *)

PlateTexts == {"", "M-AB 1", " m-ab 1 "}
MakeTexts == {"", "VW"}
ModelTexts == {"", "Golf"}
Suffixes == {"1f3a", "9c0e"}     \* Math.random().toString(16).slice(2, 6)

\* String(vehicleDraft.plate || "").trim().toUpperCase() on the plates the model types
TrimUpper(text) == IF text = " m-ab 1 " THEN "M-AB 1" ELSE text

\* [make, model].filter(Boolean).join(" ").trim() || plate || "Vehicle"
VehicleLabelOf(plate, make, model) ==
    IF make # "" /\ model # "" THEN "VW Golf"
    ELSE IF make # "" THEN make
    ELSE IF model # "" THEN model
    ELSE IF plate # "" THEN plate
    ELSE "Vehicle"

\* normalizeVehicleId(seed): trimmed, lower case, runs of other characters turned into
\* "-", on the seeds the model can form
normalizeVehicleId(seed) ==
    CASE seed = "M-AB 1" -> "m-ab-1"
      [] seed = "VW Golf" -> "vw-golf"
      [] seed = "VW" -> "vw"
      [] seed = "Golf" -> "golf"

\* `${idBase}-${suffix}`
WithSuffix(idBase, suffix) ==
    CASE idBase = "m-ab-1" /\ suffix = "1f3a" -> "m-ab-1-1f3a"
      [] idBase = "m-ab-1" /\ suffix = "9c0e" -> "m-ab-1-9c0e"
      [] idBase = "vw-golf" /\ suffix = "1f3a" -> "vw-golf-1f3a"
      [] idBase = "vw-golf" /\ suffix = "9c0e" -> "vw-golf-9c0e"
      [] idBase = "vw" /\ suffix = "1f3a" -> "vw-1f3a"
      [] idBase = "vw" /\ suffix = "9c0e" -> "vw-9c0e"
      [] idBase = "golf" /\ suffix = "1f3a" -> "golf-1f3a"
      [] idBase = "golf" /\ suffix = "9c0e" -> "golf-9c0e"

\* a handler of the vehicle manager that sets neither profile nor vehicleId
ModalHandler(modal, name) ==
    /\ CanRun
    /\ Commit(profile, appState, date, vehicleId, odometerText, generalNotesText, draft, FALSE)
    /\ vehicleModal' = modal
    /\ alertMsg' = ""
    /\ lastOp' = [op |-> name]
    /\ UNCHANGED <<reader, uidSeq, download>>

StartAddVehicle ==
    ModalHandler([mode |-> "add", editId |-> "", draft |-> blankVehicle], "startAddVehicle")

\* the Edit button of a listed vehicle
StartEditVehicle(k) ==
    /\ vehicleModal.mode = "list"
    /\ LET v == Vehicles(profile)[k]
       IN  ModalHandler([mode |-> "edit", editId |-> v.id,
                         draft |-> [plate |-> v.plate, make |-> v.make, model |-> v.model]],
                        "startEditVehicle")

CancelVehicleEdit ==
    /\ vehicleModal.mode \in {"add", "edit"}
    /\ ModalHandler(ModalAtRest, "cancelVehicleEdit")

\* an input of the form: setDraft((d) => ({ ...d, [field]: e.target.value }))
SetVehicleDraft(field, text) ==
    /\ vehicleModal.mode \in {"add", "edit"}
    /\ ModalHandler([vehicleModal EXCEPT !.draft[field] = text], "setVehicleDraft")

\* the Set active button of a listed vehicle that is not the active one
SelectActiveVehicle(vid) ==
    /\ CanRun
    /\ vehicleModal.mode = "list"
    /\ vid \in VehicleIds(profile) /\ vid # vehicleId
    /\ Commit(profile, appState, date, vid, odometerText, generalNotesText, draft, FALSE)
    /\ alertMsg' = ""
    /\ lastOp' = [op |-> "selectActiveVehicle", vid |-> vid]
    /\ UNCHANGED <<reader, uidSeq, vehicleModal, download>>

\* (profile.vehicles || []).filter((x) => x.id !== vid)
RECURSIVE VehiclesWithout(_, _)
VehiclesWithout(vs, vid) ==
    IF vs = <<>> THEN <<>>
    ELSE IF Head(vs).id # vid THEN <<Head(vs)>> \o VehiclesWithout(Tail(vs), vid)
    ELSE VehiclesWithout(Tail(vs), vid)

\* a deleteVehicle that leaves the selection to the effect
ActiveAfterDeleteKept(vid, nextVehicles) == vehicleId

\* if (vehicleId === vid) setVehicleId(nextVehicles[0]?.id || "")
ActiveAfterDelete(vid, nextVehicles) ==
    IF vehicleId = vid
    THEN (IF nextVehicles = <<>> THEN "" ELSE nextVehicles[1].id)
    ELSE vehicleId

\* the Delete button of a listed vehicle; ok is the answer to window.confirm
DeleteVehicle(vid, ok) ==
    /\ CanRun
    /\ vehicleModal.mode = "list"
    /\ vid \in VehicleIds(profile)
    /\ LET nextVehicles == VehiclesWithout(Vehicles(profile), vid)
       IN  IF ok
           THEN Commit(Merge(profile, [vehicles |-> nextVehicles]), appState, date,
                       ActiveAfterDelete(vid, nextVehicles),
                       odometerText, generalNotesText, draft, TRUE)
           ELSE Commit(profile, appState, date, vehicleId, odometerText, generalNotesText,
                       draft, FALSE)
    /\ alertMsg' = ""
    /\ lastOp' = [op |-> "deleteVehicle", vid |-> vid, ok |-> ok]
    /\ UNCHANGED <<reader, uidSeq, vehicleModal, download>>

\* let id = idBase; if (existingIds.includes(id)) id = `${idBase}-${suffix}`
NewVehicleId(idBase, existingIds, suffix) ==
    IF idBase \in existingIds THEN WithSuffix(idBase, suffix) ELSE idBase

\* an edit that adds the vehicle when the list has none of the edited id
EditedVehiclesUpsert(vs, editId, fields) ==
    IF \E k \in 1..Len(vs) : vs[k].id = editId
    THEN [k \in 1..Len(vs) |-> IF vs[k].id # editId THEN vs[k] ELSE Merge(vs[k], fields)]
    ELSE vs \o <<Merge([id |-> editId], fields)>>

\* (profile.vehicles || []).map((v) => v.id !== editId ? v : { ...v, label, plate, ... })
EditedVehicles(vs, editId, fields) ==
    [k \in 1..Len(vs) |-> IF vs[k].id # editId THEN vs[k] ELSE Merge(vs[k], fields)]

\* saveVehicle(); suffix is what Math.random() gives if it is asked
SaveVehicle(suffix) ==
    /\ CanRun
    /\ vehicleModal.mode \in {"add", "edit"}
    /\ LET plate == TrimUpper(vehicleModal.draft.plate)
           make == vehicleModal.draft.make
           model == vehicleModal.draft.model
           label == VehicleLabelOf(plate, make, model)
           fields == [label |-> label, plate |-> plate, make |-> make, model |-> model]
           quiet == Commit(profile, appState, date, vehicleId, odometerText, generalNotesText,
                           draft, FALSE)
       IN  IF plate = "" /\ make = "" /\ model = ""
           THEN /\ quiet
                /\ alertMsg' = "Please enter at least a number plate or make/model."
                /\ vehicleModal' = vehicleModal
                /\ lastOp' = [op |-> "saveVehicle", outcome |-> "refused"]
           ELSE IF vehicleModal.mode = "add"
           THEN LET id == NewVehicleId(normalizeVehicleId(IF plate # "" THEN plate ELSE label),
                                       VehicleIds(profile), suffix)
                    nextVehicles == Vehicles(profile) \o <<Merge([id |-> id], fields)>>
                IN  /\ Commit(Merge(profile, [vehicles |-> nextVehicles]), appState, date, id,
                              odometerText, generalNotesText, draft, TRUE)
                    /\ alertMsg' = ""
                    /\ vehicleModal' = ModalAtRest
                    /\ lastOp' = [op |-> "saveVehicle", outcome |-> "added", id |-> id,
                                  collided |-> id \in VehicleIds(profile)]
           ELSE IF vehicleModal.editId = ""
           THEN /\ quiet
                /\ alertMsg' = "Edit failed: missing vehicle id"
                /\ vehicleModal' = ModalAtRest
                /\ lastOp' = [op |-> "saveVehicle", outcome |-> "failed"]
           ELSE LET nextVehicles == EditedVehicles(Vehicles(profile), vehicleModal.editId, fields)
                IN  /\ Commit(Merge(profile, [vehicles |-> nextVehicles]), appState, date,
                              vehicleId, odometerText, generalNotesText, draft, TRUE)
                    /\ alertMsg' = ""
                    /\ vehicleModal' = ModalAtRest
                    /\ lastOp' = [op |-> "saveVehicle", outcome |-> "updated",
                                  id |-> vehicleModal.editId]
    /\ UNCHANGED <<reader, uidSeq, download>>

----------------------------------------------------------------------------
(* Export *)

\* JSON.stringify({ exportedAt, profile, data: appState }, null, 2)
ExportPayload == Text([exportedAt |-> now, profile |-> profile, data |-> ToDoc(appState)])

\* exportJSON(): the file is downloaded; `from` remembers the AppState it was written from
ExportJSON ==
    /\ CanRun
    /\ Commit(profile, appState, date, vehicleId, odometerText, generalNotesText, draft, FALSE)
    /\ download' = [file |-> ExportPayload, from |-> appState]
    /\ alertMsg' = ""
    /\ lastOp' = [op |-> "exportJSON"]
    /\ UNCHANGED <<reader, uidSeq, vehicleModal>>

----------------------------------------------------------------------------
(* Import *)

\* what a later step may still know of the handler that ran before it
Brief(op) ==
    IF op.op = "onload" THEN [op |-> "onload", outcome |-> op.outcome, file |-> op.file]
    ELSE [op |-> op.op]

\* importJSON(file) with a file chosen: a FileReader is created, its onload closes over
\* the values of the current render, and readAsText(file) starts
ImportJSON(file) ==
    /\ CanRun
    /\ reader.readyState # "LOADING"
    /\ Commit(profile, appState, date, vehicleId, odometerText, generalNotesText, draft, FALSE)
    /\ reader' = [readyState |-> "LOADING", file |-> file, closure |-> Closure]
    /\ alertMsg' = ""
    /\ lastOp' = [op |-> "importJSON", file |-> file, prev |-> Brief(lastOp)]
    /\ UNCHANGED <<uidSeq, vehicleModal, download>>

\* if (!incomingCheck?.id) throw ...: an import that takes any check object
CheckAcceptedAny(check) == TRUE

CheckAccepted(check) == Truthy(IdOf(check))

\* if (!incoming?.checks || !Array.isArray(incoming.checks)) throw ...
DataAccepted(data) == Has(data, "checks") /\ IsArray(data.checks)

Rejected(msg) ==
    [outcome |-> "rejected", alert |-> msg, profileSet |-> FALSE,
     profile |-> profile, appState |-> appState,
     odometerText |-> odometerText, generalNotesText |-> generalNotesText, draft |-> draft]

\* a full import that keeps the checks it finds and puts the imported ones in front
FullImportMerging(parsed, c) ==
    IF ~DataAccepted(parsed.data) THEN Rejected("Invalid import file")
    ELSE [outcome |-> IF ResetThrows(c) THEN "threw" ELSE "full",
          alert |-> IF ResetThrows(c) THEN "TypeError" ELSE "",
          profileSet |-> TRUE,
          profile |-> IF IsNull(parsed.profile) THEN c.profile ELSE parsed.profile,
          appState |-> saveState([FromDoc(parsed.data) EXCEPT !.checks = @ \o appState.checks], now),
          odometerText |-> TextAfterReset(c, odometerText),
          generalNotesText |-> TextAfterReset(c, generalNotesText),
          draft |-> DraftAfterReset(c)]

\* onload, kind "full": setProfile, setAppState(saveState(incoming)), resetDraft()
FullImport(parsed, c) ==
    IF ~DataAccepted(parsed.data) THEN Rejected("Invalid import file")
    ELSE [outcome |-> IF ResetThrows(c) THEN "threw" ELSE "full",
          alert |-> IF ResetThrows(c) THEN "TypeError" ELSE "",
          profileSet |-> TRUE,
          profile |-> IF IsNull(parsed.profile) THEN c.profile ELSE parsed.profile,
          appState |-> saveState(FromDoc(parsed.data), now),
          odometerText |-> TextAfterReset(c, odometerText),
          generalNotesText |-> TextAfterReset(c, generalNotesText),
          draft |-> DraftAfterReset(c)]

\* a single-check import that works on the history its closure saw
CheckImportStale(parsed, c) ==
    IF ~CheckAccepted(parsed.check) THEN Rejected("Invalid import file")
    ELSE [outcome |-> "check", alert |-> "",
          profileSet |-> ~IsNull(parsed.profile),
          profile |-> IF IsNull(parsed.profile) THEN profile ELSE parsed.profile,
          appState |-> saveState([c.appState EXCEPT !.checks =
                                     Prepend(parsed.check, WithoutId(@, IdOf(parsed.check)))], now),
          odometerText |-> odometerText, generalNotesText |-> generalNotesText, draft |-> draft]

\* a single-check import that only prepends
CheckImportAppend(parsed, c) ==
    IF ~CheckAccepted(parsed.check) THEN Rejected("Invalid import file")
    ELSE [outcome |-> "check", alert |-> "",
          profileSet |-> ~IsNull(parsed.profile),
          profile |-> IF IsNull(parsed.profile) THEN profile ELSE parsed.profile,
          appState |-> saveState([appState EXCEPT !.checks = Prepend(parsed.check, @)], now),
          odometerText |-> odometerText, generalNotesText |-> generalNotesText, draft |-> draft]

\* onload, kind "check": setProfile when the file has one, and the upsert of the check
CheckImport(parsed, c) ==
    IF ~CheckAccepted(parsed.check) THEN Rejected("Invalid import file")
    ELSE [outcome |-> "check", alert |-> "",
          profileSet |-> ~IsNull(parsed.profile),
          profile |-> IF IsNull(parsed.profile) THEN profile ELSE parsed.profile,
          appState |-> saveState([appState EXCEPT !.checks =
                                     Prepend(parsed.check, WithoutId(@, IdOf(parsed.check)))], now),
          odometerText |-> odometerText, generalNotesText |-> generalNotesText, draft |-> draft]

\* the body of reader.onload for the text `text`, run in closure c
OnLoad(text, c) ==
    LET parsed == parseImportPayload(text)
    IN  IF ~parsed.ok THEN Rejected(parsed.message)
        ELSE IF parsed.kind = "full" THEN FullImport(parsed, c)
        ELSE CheckImport(parsed, c)

\* the read completes and onload runs
ReaderLoad ==
    /\ CanRun
    /\ reader.readyState = "LOADING"
    /\ LET r == OnLoad(reader.file, reader.closure)
       IN  /\ Commit(r.profile, r.appState, date, vehicleId, r.odometerText, r.generalNotesText,
                     r.draft, r.profileSet)
           /\ alertMsg' = r.alert
           /\ lastOp' = [op |-> "onload", outcome |-> r.outcome, file |-> reader.file,
                         raced |-> reader.closure.appState.checks # appState.checks,
                         dropped |-> \E i \in 1..Len(appState.checks) :
                                        appState.checks[i] \notin Range(r.appState.checks),
                         again |-> lastOp.op = "importJSON" /\ lastOp.prev.op = "onload"
                                   /\ lastOp.prev.outcome = "check" /\ lastOp.prev.file = reader.file]
    /\ reader' = [readyState |-> "DONE", error |-> FALSE]
    /\ UNCHANGED <<uidSeq, vehicleModal, download>>

\* the read fails: the reader has no onerror handler, so no code of the app runs
ReaderError ==
    /\ CanRun
    /\ reader.readyState = "LOADING"
    /\ reader' = [readyState |-> "DONE", error |-> TRUE]
    /\ alertMsg' = ""
    /\ now' = now + 1
    /\ lastOp' = [op |-> "readError"]
    /\ UNCHANGED <<profile, appState, date, vehicleId, odometerText, generalNotesText,
                   draft, localStorage, uidSeq, budget, vehicleModal, download, rejects,
                   savedView>>

----------------------------------------------------------------------------
(* Saved-check viewer *)

\* selectedSavedCheck: (appState.checks || []).find((c) => c.id === savedId) || null
SelectedSavedChecks ==
    {i \in 1..Len(appState.checks) : IdOf(appState.checks[i]) = savedView.id}

\* {savedOpen && selectedSavedCheck ? <modal> : null}
ViewerShown == savedView.open /\ SelectedSavedChecks # {}

\* the View button of a listed check: openSaved(c.id)
OpenSaved(id) ==
    /\ CanRun
    /\ CommitView(profile, appState, date, vehicleId, odometerText, generalNotesText, draft,
                  FALSE, [open |-> TRUE, id |-> id])
    /\ alertMsg' = ""
    /\ lastOp' = [op |-> "openSaved", id |-> id]
    /\ UNCHANGED <<reader, uidSeq, vehicleModal, download>>

\* the Close button and the backdrop of the viewer: setSavedOpen(false)
CloseSaved ==
    /\ CanRun
    /\ ViewerShown
    /\ CommitView(profile, appState, date, vehicleId, odometerText, generalNotesText, draft,
                  FALSE, [savedView EXCEPT !.open = FALSE])
    /\ alertMsg' = ""
    /\ lastOp' = [op |-> "closeSaved"]
    /\ UNCHANGED <<reader, uidSeq, vehicleModal, download>>

----------------------------------------------------------------------------
(* Specifications *)

ItemIndexes == {<<k, j>> \in (1..2) \X (1..2) :
                    k <= Len(draft.sections) /\ j <= Len(draft.sections[k].items)}

CheckIds == {IdOf(appState.checks[i]) : i \in 1..Len(appState.checks)}

ToggleDoneAny == \E pos \in ItemIndexes : ToggleDone(pos[1], pos[2])
OnSeverityChangeAny == \E pos \in ItemIndexes, sev \in Severities : OnSeverityChange(pos[1], pos[2], sev)
OnNoteBlurAny == \E pos \in ItemIndexes, text \in NoteTexts : OnNoteBlur(pos[1], pos[2], text)
SetDateAny == \E d \in Dates : SetDate(d)
SetVehicleIdAny == \E v \in VehicleIds(profile) : SetVehicleId(v)
SetOdometerTextAny == \E text \in OdometerTexts : SetOdometerText(text)
SetGeneralNotesTextAny == \E text \in NotesTexts : SetGeneralNotesText(text)
DeleteCheckAny == \E id \in CheckIds, ok \in BOOLEAN : DeleteCheck(id, ok)
ImportJSONAny == \E file \in ImportFiles : ImportJSON(file)

Next ==
    \/ ToggleDoneAny
    \/ OnSeverityChangeAny
    \/ OnNoteBlurAny
    \/ SetDateAny
    \/ SetVehicleIdAny
    \/ SetOdometerTextAny
    \/ SetGeneralNotesTextAny
    \/ ResetDraft
    \/ SaveCheck
    \/ DeleteCheckAny
    \/ ImportJSONAny
    \/ ReaderLoad
    \/ ReaderError
    \/ Reload

Spec == Init /\ [][Next]_vars

\* the draft engine and the commit of a draft, on a first run
NextDraft ==
    \/ ToggleDoneAny
    \/ OnSeverityChangeAny
    \/ OnNoteBlurAny
    \/ ResetDraft
    \/ SaveCheck

SpecDraft == InitFresh(MaxDraftTime) /\ [][NextDraft]_vars

\* import, history and reload
NextImport ==
    \/ ImportJSONAny
    \/ ReaderLoad
    \/ ReaderError
    \/ SaveCheck
    \/ DeleteCheckAny
    \/ Reload

SpecImport == InitFresh(MaxImportTime) /\ [][NextImport]_vars

SpecLoad == InitStored(MaxDraftTime) /\ [][NextImport]_vars

\* the vehicle manager
StartEditVehicleAny == \E k \in 1..Len(Vehicles(profile)) : StartEditVehicle(k)
SetVehicleDraftAny ==
    \/ \E text \in PlateTexts : SetVehicleDraft("plate", text)
    \/ \E text \in MakeTexts : SetVehicleDraft("make", text)
    \/ \E text \in ModelTexts : SetVehicleDraft("model", text)
SelectActiveVehicleAny == \E vid \in VehicleIds(profile) : SelectActiveVehicle(vid)
DeleteVehicleAny == \E vid \in VehicleIds(profile), ok \in BOOLEAN : DeleteVehicle(vid, ok)
SaveVehicleAny == \E suffix \in Suffixes : SaveVehicle(suffix)

NextVehicles ==
    \/ StartAddVehicle
    \/ StartEditVehicleAny
    \/ CancelVehicleEdit
    \/ SetVehicleDraftAny
    \/ SaveVehicleAny
    \/ SelectActiveVehicleAny
    \/ DeleteVehicleAny

SpecVehicles == InitFresh(MaxVehicleTime) /\ [][NextVehicles]_vars

\* the app on a store that may refuse writes
StoreRejectsAny == \E keys \in SUBSET {"app", "profile"} : StoreRejects(keys)

NextStore ==
    \/ StoreRejectsAny
    \/ SaveCheck
    \/ DeleteCheckAny
    \/ ImportJSONAny
    \/ ReaderLoad
    \/ DeleteVehicleAny
    \/ Reload

SpecStore == InitFresh(MaxStoreTime) /\ [][NextStore]_vars

\* opening the app on any store
NextBoot ==
    \/ SaveCheck
    \/ DeleteVehicleAny
    \/ Reload

SpecBoot == InitAnyStore(MaxBootTime) /\ [][NextBoot]_vars

\* parseImportPayload as a function
ParseCall(text) ==
    /\ lastOp' = [op |-> "parseImportPayload", text |-> text, result |-> parseImportPayload(text)]
    /\ UNCHANGED <<profile, appState, date, vehicleId, odometerText, generalNotesText,
                   draft, localStorage, reader, alertMsg, now, uidSeq, budget,
                   vehicleModal, download, rejects, savedView>>

ParseCallAny == \E text \in ParsePayloads : ParseCall(text)

SpecParse == InitFresh(MaxTime) /\ [][ParseCallAny]_vars

\* export, and import of the exported file
ImportDownload == download.file # NoItem /\ ImportJSON(download.file)

NextRoundTrip ==
    \/ ToggleDoneAny
    \/ SaveCheck
    \/ DeleteCheckAny
    \/ ExportJSON
    \/ ImportDownload
    \/ ReaderLoad

SpecRoundTrip == InitFresh(MaxRoundTripTime) /\ [][NextRoundTrip]_vars

\* the history under saveCheck, deleteCheck and imports of single checks
SingleCheckFiles == {file \in ImportFiles : file.kind = "json" /\ ~IsNull(file.val)
                                            /\ Has(file.val, "check") /\ ~Has(file.val, "data")}

ImportCheckAny == \E file \in SingleCheckFiles : ImportJSON(file)

\* an id that nothing carries
NoSuchId == {999}

\* deleteCheck(id) with the id of a listed check or with an id the history does not hold
DeleteCheckCallAny == \E id \in CheckIds \cup NoSuchId, ok \in BOOLEAN : DeleteCheck(id, ok)

NextHistory ==
    \/ SaveCheck
    \/ DeleteCheckCallAny
    \/ ImportCheckAny
    \/ ReaderLoad

SpecHistory == InitFresh(MaxHistoryTime) /\ [][NextHistory]_vars

\* updateItem as a function: any section id, any item id, any patch of the app
DraftSectionIds == {draft.sections[k].id : k \in 1..Len(draft.sections)}
DraftItemIds == UNION {{draft.sections[k].items[j].id : j \in 1..Len(draft.sections[k].items)} :
                          k \in 1..Len(draft.sections)}
Patches ==
    {[done |-> b] : b \in BOOLEAN} \cup {SeverityPatch(sev) : sev \in Severities}
        \cup {[note |-> text] : text \in NoteTexts}

UpdateItemCallAny ==
    \E sectionId \in DraftSectionIds \cup NoSuchId, itemId \in DraftItemIds \cup NoSuchId,
       patch \in Patches : UpdateItemCall(sectionId, itemId, patch)

SpecUpdateItem == InitFresh(MaxUpdateTime) /\ [][UpdateItemCallAny]_vars

\* the viewer over a history that saves, deletes, imports and reloads change
ViewerFiles ==
    { Text([exportedAt |-> 0, profile |-> PY,
            data |-> [meta |-> Stamp(APP_META, 0), template |-> ForeignTemplate(TEMPLATE_REV), checks |-> Arr(<<K1, K2>>)]]),
      Text([data |-> [checks |-> Arr(<<>>)]]),
      Text([data |-> [template |-> ForeignTemplate(TEMPLATE_REV), checks |-> Arr(<<KFalsyId, K2>>)]]),
      Text([check |-> K1b]) }

OpenSavedAny == \E id \in CheckIds : OpenSaved(id)
ImportViewerFile == \E file \in ViewerFiles : ImportJSON(file)

NextViewer ==
    \/ OpenSavedAny
    \/ CloseSaved
    \/ SaveCheck
    \/ DeleteCheckAny
    \/ ImportViewerFile
    \/ ReaderLoad
    \/ Reload

SpecViewer == InitFresh(MaxViewerTime) /\ [][NextViewer]_vars

\* history, import, reload and the vehicle manager together
NextApp ==
    \/ SaveCheck
    \/ DeleteCheckAny
    \/ ImportJSONAny
    \/ ReaderLoad
    \/ Reload
    \/ StartAddVehicle
    \/ StartEditVehicleAny
    \/ CancelVehicleEdit
    \/ SetVehicleDraftAny
    \/ SaveVehicleAny
    \/ SelectActiveVehicleAny
    \/ DeleteVehicleAny

SpecApp == InitFresh(MaxAppTime) /\ [][NextApp]_vars

----------------------------------------------------------------------------
(* The text summary of a check *)

\* The text is kept as the sequence of its lines, which join("\n") glues together.
\* Strings are ASCII here: "* " stands for the bullet, " -- " for the dash before a
\* note and "...and " for the ellipsis of the footer.
Bullet == "* "
NoteDash == " -- "

OrDash(c, f) == IF Has(c, f) /\ c[f] # "" THEN c[f] ELSE "-"

\* c.summary?.<f> ?? 0
SummaryCount(c, f) ==
    IF Has(c, "summary") /\ Has(c.summary, f) THEN ToString(c.summary[f]) ELSE "0"

HeaderLines(c) ==
    <<"Vehicle Check Report",
      "-------------------",
      "Date: " \o OrDash(c, "date"),
      "Vehicle: " \o (IF OrDash(c, "vehicleLabel") # "-" THEN c.vehicleLabel
                      ELSE OrDash(c, "vehicleId")),
      "Odometer: " \o OrDash(c, "odometer"),
      "Items: " \o SummaryCount(c, "doneCount") \o "/" \o SummaryCount(c, "totalItems"),
      "Issues: " \o SummaryCount(c, "issueCount")>>

GeneralNotesLines(c) ==
    IF Has(c, "generalNotes") /\ c.generalNotes # ""
    THEN <<"", "General notes:", c.generalNotes>>
    ELSE <<>>

FindingLine(s, it) ==
    Bullet \o s.title \o ": " \o it.label
        \o (IF Has(it, "note") /\ it.note # "" THEN NoteDash \o it.note ELSE "")

\* a collector that lists the issues only
RECURSIVE ItemFindingsIssuesOnly(_, _)
ItemFindingsIssuesOnly(s, items) ==
    IF items = <<>> THEN <<>>
    ELSE (IF ~IsNull(Head(items)) /\ Has(Head(items), "severity")
               /\ Head(items).severity = "issue"
          THEN <<FindingLine(s, Head(items))>> ELSE <<>>)
         \o ItemFindingsIssuesOnly(s, Tail(items))

\* the inner loop: for (const it of s.items || [])
RECURSIVE ItemFindings(_, _)
ItemFindings(s, items) ==
    IF items = <<>> THEN <<>>
    ELSE (IF ~IsNull(Head(items)) /\ Has(Head(items), "severity")
               /\ Head(items).severity \in {"issue", "note"}
          THEN <<FindingLine(s, Head(items))>> ELSE <<>>)
         \o ItemFindings(s, Tail(items))

\* the outer loop: for (const s of c.sections || [])
RECURSIVE SectionFindings(_)
SectionFindings(sections) ==
    IF sections = <<>> THEN <<>>
    ELSE ItemFindings(Head(sections),
                      IF Has(Head(sections), "items") THEN Head(sections).items ELSE <<>>)
         \o SectionFindings(Tail(sections))

FindingsCap == 80

FindingsBlock(findings) ==
    IF Len(findings) = 0 THEN <<>>
    ELSE <<"", "Findings:">>
         \o SubSeq(findings, 1, IF Len(findings) < FindingsCap THEN Len(findings) ELSE FindingsCap)
         \o (IF Len(findings) > FindingsCap
             THEN <<"...and " \o ToString(Len(findings) - FindingsCap) \o " more">>
             ELSE <<>>)

TipLines ==
    <<"", "Tip: Open this check in the app and use Preview -> Print/Save PDF to attach a clean PDF.">>

buildCheckSummaryText(check) ==
    LET c == IF IsNull(check) THEN <<>> ELSE check
    IN HeaderLines(c) \o GeneralNotesLines(c)
         \o FindingsBlock(SectionFindings(IF Has(c, "sections") THEN c.sections ELSE <<>>))
         \o TipLines

\* The checks the summary is built of: two sections, the first short or of a length
\* around the cap, the second short, with severities and notes varying along the items.
MaxOverflow == 2       \* how far the first section of a summarised check goes beyond the cap
MaxShortSection == 2   \* the longest short section of a summarised check

SeverityPatterns == {"all", "some", "none"}

SeverityAt(pattern, j) ==
    IF pattern = "none" THEN "ok"
    ELSE IF pattern = "some" /\ j % 3 = 0 THEN "ok"
    ELSE IF j % 2 = 1 THEN "issue" ELSE "note"

SummaryItem(pattern, j) ==
    IF pattern = "some" /\ j % 7 = 0 THEN Null
    ELSE IF j % 5 = 0 THEN [label |-> "item " \o ToString(j), severity |-> SeverityAt(pattern, j)]
    ELSE [label |-> "item " \o ToString(j), severity |-> SeverityAt(pattern, j),
          note |-> IF j % 4 < 2 THEN "" ELSE "worn"]

SummarySection(title, n, pattern) ==
    [title |-> title, items |-> [j \in 1..n |-> SummaryItem(pattern, j)]]

SummaryChecks ==
    {[date |-> "2026-01-07", vehicleLabel |-> "M-AB 1", odometer |-> "123",
      summary |-> [doneCount |-> 1, totalItems |-> n + m, issueCount |-> 1],
      generalNotes |-> g,
      sections |-> <<SummarySection("Exterior", n, p), SummarySection("Interior", m, q)>>] :
        n \in (0..MaxShortSection) \cup ((FindingsCap - 1)..(FindingsCap + MaxOverflow)),
        m \in 0..MaxShortSection,
        p \in SeverityPatterns, q \in {"all", "none"}, g \in {"", "Hello"}}
      \cup {Null, [date |-> "2026-01-07"], [sections |-> <<[title |-> "Exterior"]>>]}

BuildSummaryCall(check) ==
    /\ lastOp' = [op |-> "buildCheckSummaryText", check |-> check,
                  lines |-> buildCheckSummaryText(check)]
    /\ UNCHANGED <<profile, appState, date, vehicleId, odometerText, generalNotesText,
                   draft, localStorage, reader, alertMsg, now, uidSeq, budget,
                   vehicleModal, download, rejects, savedView>>

BuildSummaryCallAny == \E check \in SummaryChecks : BuildSummaryCall(check)

SpecSummary == InitFresh(MaxTime) /\ [][BuildSummaryCallAny]_vars

----------------------------------------------------------------------------
(* Vocabulary of the properties *)

ItemPositions(sections) ==
    UNION {{<<k, j>> : j \in 1..Len(sections[k].items)} : k \in 1..Len(sections)}

ItemAt(sections, pos) == sections[pos[1]].items[pos[2]]

\* the checks of the history that saveCheck made (uid() ids), as opposed to imported ones
SavedChecks == {c \in Range(appState.checks) : IdOf(c) \in 1..uidSeq}

WithoutMeta(a) == [f \in DOMAIN a \ {"meta"} |-> a[f]]

OccurrencesOf(id, checks) == Cardinality({i \in 1..Len(checks) : IdOf(checks[i]) = id})

ImportedCheck(op) == op.file.val.check

\* section ids and item ids, in order
Shape(sections) ==
    [k \in 1..Len(sections) |->
        <<sections[k].id, [j \in 1..Len(sections[k].items) |-> sections[k].items[j].id]>>]

\* titles and labels, in order
Wording(sections) ==
    [k \in 1..Len(sections) |->
        <<sections[k].title, [j \in 1..Len(sections[k].items) |-> sections[k].items[j].label]>>]

\* an import file that parseImportPayload or importJSON's own validation turns down
FailsValidation(file) ==
    \/ file.kind # "json"
    \/ IsNull(file.val)
    \/ /\ ~(Has(file.val, "data") /\ Has(file.val.data, "checks") /\ file.val.data.checks.isArray)
       /\ \/ ~Has(file.val, "check")
          \/ Has(file.val.check, "prim")
          \/ ~Has(file.val.check, "id")

\* the items a summary has to list, as positions <<section, item>>, and their order
ListedIn(c) ==
    IF IsNull(c) \/ ~Has(c, "sections") THEN {}
    ELSE {p \in UNION {{<<k, j>> : j \in 1..(IF Has(c.sections[k], "items")
                                                THEN Len(c.sections[k].items) ELSE 0)} :
                          k \in 1..Len(c.sections)} :
             /\ ~IsNull(ItemAt(c.sections, p))
             /\ ItemAt(c.sections, p).severity \in {"note", "issue"}}

ComesBefore(p, q) == p[1] < q[1] \/ (p[1] = q[1] /\ p[2] < q[2])

RankIn(P, p) == Cardinality({q \in P : ComesBefore(q, p)}) + 1

HasNote(it) == Has(it, "note") /\ it.note # ""

\* the line of the summary that is the header of the Findings block
FindingsHeaderAt(lines) == {h \in 1..Len(lines) : lines[h] = "Findings:"}

----------------------------------------------------------------------------
(* Properties *)

\* C1: importing the same single-check file a second time, right after the first import,
\* leaves the history as the first import left it, with exactly one check of that id;
\* nothing of the AppState but meta.updatedAt changes.
C1_ReimportIdempotent ==
    [][(lastOp'.op = "onload" /\ lastOp'.outcome = "check" /\ lastOp'.again)
        => /\ appState'.checks = appState.checks
           /\ OccurrencesOf(IdOf(ImportedCheck(lastOp')), appState'.checks) = 1
           /\ WithoutMeta(appState') = WithoutMeta(appState)]_vars

C1_Witness ==
    /\ lastOp.op = "onload" /\ lastOp.outcome = "check" /\ lastOp.again
    /\ Len(appState.checks) >= 2

\* C2: a single-check import merges into the history as it is when the read completes:
\* the imported check is the head, no other check has its id, and the rest is the
\* previous history without that id, in its previous order.
C2_SingleImportMerges ==
    [][(lastOp'.op = "onload" /\ lastOp'.outcome = "check")
        => LET inc == ImportedCheck(lastOp')
               Other(c) == IdOf(c) # IdOf(inc)
           IN  /\ appState'.checks # <<>>
               /\ Head(appState'.checks) = inc
               /\ OccurrencesOf(IdOf(inc), appState'.checks) = 1
               /\ Tail(appState'.checks) = SelectSeq(appState.checks, Other)]_vars

C2_Witness ==
    /\ lastOp.op = "onload" /\ lastOp.outcome = "check" /\ lastOp.raced
    /\ Len(appState.checks) >= 2
    /\ SavedChecks # {}

\* C3: a full import replaces the history by the payload's data.checks, element for
\* element, and the Profile by the payload's profile when it has one.
C3_FullImportReplaces ==
    [][(lastOp'.op = "onload" /\ lastOp'.outcome \in {"full", "threw"})
        => LET payload == lastOp'.file.val
           IN  /\ appState'.checks = payload.data.checks.elems
               /\ \A c \in Range(appState'.checks) : c \in Range(payload.data.checks.elems)
               /\ (Has(payload, "profile") => profile' = payload.profile)]_vars

C3_Witness ==
    /\ lastOp.op = "onload" /\ lastOp.outcome = "full" /\ lastOp.dropped
    /\ Has(lastOp.file.val, "profile")
    /\ profile = lastOp.file.val.profile
    /\ appState.checks # <<>>

\* C4: an import file that fails validation (text that is not JSON, an unrecognised
\* shape, data.checks that is no array with no check object beside it, a check object
\* without an id) raises an alert and changes nothing: Profile, AppState, Draft and both
\* stored records are as before.
C4_InvalidImportAllOrNothing ==
    [][(lastOp'.op = "onload" /\ FailsValidation(lastOp'.file))
        => /\ alertMsg' # ""
           /\ profile' = profile
           /\ appState' = appState
           /\ draft' = draft
           /\ localStorage' = localStorage]_vars

C4_Witness ==
    /\ lastOp.op = "onload"
    /\ lastOp.file = Text([data |-> [checks |-> NotArr]])
    /\ alertMsg = "Invalid import file"
    /\ SavedChecks # {}

\* C5: when the read of the import file fails, an error is shown to the user and
\* Profile, AppState, Draft and both stored records are as before.
C5_ReadFailureSurfaced ==
    [][lastOp'.op = "readError"
        => /\ alertMsg' # ""
           /\ profile' = profile
           /\ appState' = appState
           /\ draft' = draft
           /\ localStorage' = localStorage]_vars

\* C6: loadState on a stored record whose template.rev is not TEMPLATE_REV (or is
\* missing) gives the current default template and the stored checks in their order;
\* on a stored record at TEMPLATE_REV it gives the stored template.
C6_RevisionGating ==
    (lastOp.op = "load" /\ lastOp.raw.kind = "json")
        => LET stored == lastOp.raw.val
               storedRev == IF Has(stored, "template") /\ Has(stored.template, "rev")
                            THEN <<stored.template.rev>> ELSE <<>>
           IN  IF storedRev = <<TEMPLATE_REV>>
               THEN appState.template = stored.template
               ELSE /\ appState.template.rev = TEMPLATE_REV
                    /\ appState.template.name = defaultTemplate(0).name
                    /\ Wording(appState.template.sections) = Wording(defaultTemplate(0).sections)
                    /\ (Has(stored, "checks") /\ stored.checks.isArray
                            => appState.checks = stored.checks.elems)

C6_Witness ==
    /\ lastOp.op = "load" /\ lastOp.raw.kind = "json"
    /\ Has(lastOp.raw.val, "template")
    /\ ~Has(lastOp.raw.val.template, "rev")
    /\ Len(appState.checks) = 2

\* C7: in the draft, and in every check saveCheck made, an item of severity "ok" has an
\* empty note.
C7_OkMeansNoNote ==
    /\ \A pos \in ItemPositions(draft.sections) :
           ItemAt(draft.sections, pos).severity = "ok" => ItemAt(draft.sections, pos).note = ""
    /\ \A c \in SavedChecks : \A pos \in ItemPositions(c.sections) :
           ItemAt(c.sections, pos).severity = "ok" => ItemAt(c.sections, pos).note = ""

C7_Witness ==
    /\ lastOp.op = "onSeverityChange"
    /\ lastOp.patch.severity = "ok"
    /\ lastOp.before.note # ""
    /\ draft.sections[lastOp.k].items[lastOp.j].note = ""

\* C8: the draft at startup, after resetDraft and after saveCheck has the section ids and
\* item ids of the template, in order, and every item is "ok", not done, without note.
C8_NewDraftMirrorsTemplate ==
    (lastOp.op \in {"load", "resetDraft", "saveCheck"} /\ (lastOp.op # "load" => ~lastOp.threw))
        => /\ Shape(draft.sections) = Shape(appState.template.sections)
           /\ \A pos \in ItemPositions(draft.sections) :
                  /\ ItemAt(draft.sections, pos).severity = "ok"
                  /\ ItemAt(draft.sections, pos).done = FALSE
                  /\ ItemAt(draft.sections, pos).note = ""

C8_Witness ==
    /\ lastOp.op = "saveCheck" /\ ~lastOp.threw
    /\ \E pos \in ItemPositions(Head(appState.checks).sections) :
           ItemAt(Head(appState.checks).sections, pos).done
    /\ Len(draft.sections) = 2

\* C9: updateItem(sectionId, itemId, patch) changes the item with that section id and
\* item id, and nothing else: every other item, the order and all ids stay, and with no
\* matching section or item the draft stays as it is.
C9_UpdateItemFrame ==
    [][lastOp'.op = "updateItem"
        => LET old == draft.sections
               new == draft'.sections
               Hit(pos) == /\ old[pos[1]].id = lastOp'.sectionId
                           /\ ItemAt(old, pos).id = lastOp'.itemId
               hits == {pos \in ItemPositions(old) : Hit(pos)}
           IN  /\ Shape(new) = Shape(old)
               /\ Wording(new) = Wording(old)
               /\ draft'.date = draft.date /\ draft'.vehicleId = draft.vehicleId
               /\ Cardinality(hits) <= 1
               /\ \A pos \in ItemPositions(old) \ hits : ItemAt(new, pos) = ItemAt(old, pos)
               /\ \A pos \in hits : \A f \in DOMAIN ItemAt(old, pos) :
                      ItemAt(new, pos)[f] = IF f \in DOMAIN lastOp'.patch
                                            THEN lastOp'.patch[f] ELSE ItemAt(old, pos)[f]
               /\ (hits = {} => draft' = draft)]_vars

C9_Witness ==
    /\ lastOp.op = "updateItem"
    /\ lastOp.patch = [done |-> TRUE]
    /\ draft.sections[1].id = lastOp.sectionId
    /\ draft.sections[1].items[1].id = lastOp.itemId
    /\ draft.sections[1].items[1].done
    /\ draft.sections[1].items[2].severity = "issue"
    /\ ~draft.sections[1].items[2].done

\* C10: the summary of every check saveCheck made counts its own sections: all items,
\* the items done, and the items of severity "issue" (not those of severity "note").
C10_SummaryMatchesSections ==
    \A c \in SavedChecks :
        LET all == ItemPositions(c.sections)
        IN  /\ c.summary.totalItems = Cardinality(all)
            /\ c.summary.doneCount = Cardinality({pos \in all : ItemAt(c.sections, pos).done})
            /\ c.summary.issueCount =
                   Cardinality({pos \in all : ItemAt(c.sections, pos).severity = "issue"})

C10_Witness ==
    \E c \in SavedChecks :
        /\ c.summary = [totalItems |-> 3, doneCount |-> 1, issueCount |-> 1]
        /\ \E pos \in ItemPositions(c.sections) : ItemAt(c.sections, pos).severity = "note"

C12_NewestFirst ==
    \A i \in 1..(Len(appState.checks) - 1) :
        appState.checks[i].createdAt >= appState.checks[i + 1].createdAt

\* C13: saveCheck puts exactly one check in front of the history: the rest is the
\* previous history, element for element, and the new check's id is the id of no check
\* that was in the history.
C13_SaveCheckPrepends ==
    [][lastOp'.op = "saveCheck"
        => /\ Len(appState'.checks) = Len(appState.checks) + 1
           /\ Tail(appState'.checks) = appState.checks
           /\ Head(appState'.checks).id = lastOp'.id
           /\ \A i \in 1..Len(appState.checks) :
                  IdOf(appState.checks[i]) # Head(appState'.checks).id]_vars

\* a check is saved into a history that holds a saved and an imported check
C13_Witness ==
    /\ lastOp.op = "saveCheck"
    /\ Len(appState.checks) >= 3
    /\ Head(appState.checks).id = lastOp.id
    /\ \E c \in Range(appState.checks) : c \notin SavedChecks
    /\ Cardinality(SavedChecks) >= 2

\* C14: a confirmed deleteCheck(id) leaves the history without the checks of that id,
\* the others in their order; with an id the history does not hold the history is the
\* same sequence; nothing is alerted; a cancelled confirmation changes nothing.
C14_DeleteCheckFrame ==
    [][lastOp'.op = "deleteCheck"
        => LET Other(c) == IdOf(c) # lastOp'.id
               held == \E i \in 1..Len(appState.checks) : IdOf(appState.checks[i]) = lastOp'.id
           IN  /\ alertMsg' = ""
               /\ lastOp'.ok => /\ appState'.checks = SelectSeq(appState.checks, Other)
                                /\ (~held => appState'.checks = appState.checks)
                                /\ WithoutMeta(appState') = [WithoutMeta(appState) EXCEPT
                                                                !.checks = appState'.checks]
               /\ ~lastOp'.ok => /\ appState' = appState /\ profile' = profile
                                 /\ draft' = draft /\ localStorage' = localStorage]_vars

\* a check in the middle of the history was deleted
C14_Witness ==
    /\ lastOp.op = "deleteCheck" /\ lastOp.ok
    /\ lastOp.id \in 1..uidSeq
    /\ Len(appState.checks) = 2
    /\ Head(appState.checks).id > lastOp.id
    /\ appState.checks[2].id < lastOp.id

\* C15: importing the file exportJSON wrote from an AppState S gives an AppState whose
\* checks are the checks of S, in order and field for field, also when S has no checks
\* and whatever the history has become in between.
C15_ExportImportRoundTrip ==
    [][(lastOp'.op = "onload" /\ lastOp'.file = download.file)
        => /\ lastOp'.outcome \in {"full", "threw"}
           /\ appState'.checks = download.from.checks]_vars

\* the exported file is imported into a history that differs from the exported one
C15_Witness ==
    /\ lastOp.op = "onload" /\ lastOp.file = download.file
    /\ lastOp.dropped
    /\ Len(appState.checks) >= 1
    /\ appState.checks = download.from.checks

\* C16: under add, edit and delete of vehicles no two vehicles of the Profile have the
\* same id, also when the derived id of an added vehicle is taken and a random suffix is
\* appended.
C16_VehicleIdsUnique ==
    \A i, j \in 1..Len(Vehicles(profile)) :
        i # j => Vehicles(profile)[i].id # Vehicles(profile)[j].id

\* C17: a confirmed delete of the active vehicle makes the first remaining vehicle the
\* active one, or none ("") when no vehicle remains; a confirmed delete of another
\* vehicle leaves the active vehicle as it is; a cancelled one changes nothing.
C17_DeleteVehicleCascades ==
    [][lastOp'.op = "deleteVehicle"
        => LET Other(v) == v.id # lastOp'.vid
               remaining == SelectSeq(Vehicles(profile), Other)
           IN  IF lastOp'.ok
               THEN /\ Vehicles(profile') = remaining
                    /\ vehicleId' = IF vehicleId # lastOp'.vid THEN vehicleId
                                    ELSE IF remaining = <<>> THEN ""
                                    ELSE remaining[1].id
                    /\ draft'.vehicleId = vehicleId'
               ELSE /\ profile' = profile /\ vehicleId' = vehicleId /\ appState' = appState
                    /\ draft' = draft /\ localStorage' = localStorage]_vars

\* the last vehicle, the active one, was deleted
C17_Witness ==
    /\ lastOp.op = "deleteVehicle" /\ lastOp.ok
    /\ Vehicles(profile) = <<>>
    /\ vehicleId = ""
    /\ draft.vehicleId = ""

\* C18: when the store refuses a key while saveCheck, deleteCheck, an import or a change
\* of the Profile runs, nothing is alerted, the state in memory is that of the completed
\* operation, and the record under the refused key is what it was.
C18_StoreFailureIgnored ==
    [][(rejects # {} /\ \/ lastOp'.op = "saveCheck" /\ ~lastOp'.threw
                        \/ lastOp'.op = "deleteCheck" /\ lastOp'.ok
                        \/ lastOp'.op = "onload" /\ lastOp'.outcome \in {"full", "check"}
                        \/ lastOp'.op = "deleteVehicle" /\ lastOp'.ok)
        => /\ alertMsg' = ""
           /\ "app" \in rejects => localStorage'.app = localStorage.app
           /\ "profile" \in rejects => localStorage'.profile = localStorage.profile
           /\ lastOp'.op = "saveCheck" =>
                  /\ Len(appState'.checks) = Len(appState.checks) + 1
                  /\ Head(appState'.checks).id = lastOp'.id
           /\ lastOp'.op = "deleteCheck" =>
                  \A i \in 1..Len(appState'.checks) : IdOf(appState'.checks[i]) # lastOp'.id
           /\ (lastOp'.op = "onload" /\ lastOp'.outcome = "check") =>
                  Head(appState'.checks) = ImportedCheck(lastOp')
           /\ (lastOp'.op = "onload" /\ lastOp'.outcome = "full") =>
                  /\ appState'.checks = lastOp'.file.val.data.checks.elems
                  /\ Has(lastOp'.file.val, "profile") => profile' = lastOp'.file.val.profile
           /\ lastOp'.op = "deleteVehicle" => lastOp'.vid \notin VehicleIds(profile')]_vars

\* a check was saved while the store refused both keys: memory has it, the store does not
C18_Witness ==
    /\ lastOp.op = "saveCheck" /\ ~lastOp.threw
    /\ rejects = {"app", "profile"}
    /\ Head(appState.checks).id = lastOp.id
    /\ localStorage.app.val.checks.elems = Tail(appState.checks)

\* C19: reading the store raises nothing. For a key that is absent, empty or holds text
\* that is no JSON, loadState gives the default AppState (current default template, no
\* checks) and loadProfile the default Profile; for well-formed JSON the parsed value is
\* what they work on (the stored Profile is the Profile, the stored checks the history).
C19_ReadingNeverThrows ==
    lastOp.op = "load"
        => /\ alertMsg = ""
           /\ lastOp.raw.kind \in {"null", "empty", "bad"}
                  => /\ appState.checks = <<>>
                     /\ appState.template.rev = TEMPLATE_REV
                     /\ appState.template.name = defaultTemplate(0).name
                     /\ Wording(appState.template.sections) = Wording(defaultTemplate(0).sections)
                     /\ appState.meta.appId = APP_META.appId
           /\ lastOp.rawProfile.kind \in {"null", "empty", "bad"} => profile = defaultProfile
           /\ (lastOp.rawProfile.kind = "json" /\ ~IsNull(lastOp.rawProfile.val))
                  => profile = lastOp.rawProfile.val
           /\ (lastOp.raw.kind = "json" /\ ~IsNull(lastOp.raw.val)
                  /\ Has(lastOp.raw.val, "checks") /\ Has(lastOp.raw.val.checks, "elems"))
                  => appState.checks = lastOp.raw.val.checks.elems

\* the app opened on text that is no JSON under one key and the empty string under the other
C19_Witness ==
    /\ lastOp.op = "load"
    /\ lastOp.raw = BadText /\ lastOp.rawProfile = EmptyText
    /\ profile = defaultProfile
    /\ appState.checks = <<>>

\* C20: parseImportPayload decides in order. The kind is "full" exactly when data.checks
\* is an array, a check object beside it or not; if not, it is "check" exactly when check
\* is an object; if not, the payload is turned down as an invalid import file. Every
\* payload gets exactly one of the three answers, and the part it names is handed on.
C20_ImportClassification ==
    (lastOp.op = "parseImportPayload" /\ lastOp.text.kind = "json")
        => LET v == lastOp.text.val
               r == lastOp.result
               checksIsArray == /\ "data" \in DOMAIN v
                                /\ "checks" \in DOMAIN v.data
                                /\ "elems" \in DOMAIN v.data.checks
               checkIsObject == /\ "check" \in DOMAIN v
                                /\ v.check \notin {Null, Prim}
           IN  /\ (r.ok /\ r.kind = "full") <=> checksIsArray
               /\ (r.ok /\ r.kind = "check") <=> (~checksIsArray /\ checkIsObject)
               /\ ~r.ok <=> (~checksIsArray /\ ~checkIsObject)
               /\ ~r.ok => r.message = "Invalid import file"
               /\ r.ok => r.kind \in {"full", "check"}
               /\ (r.ok /\ r.kind = "full") => r.data = v.data
               /\ (r.ok /\ r.kind = "check") => r.check = v.check

\* a payload with an array data.checks and a check object beside it was taken as full
C20_Witness ==
    /\ lastOp.op = "parseImportPayload"
    /\ lastOp.text = Text([data |-> [checks |-> Arr(<<>>)], check |-> K1, profile |-> PX])
    /\ lastOp.result.ok /\ lastOp.result.kind = "full"

\* C21: the Findings block of the text summary lists exactly the items of severity "note"
\* or "issue", in section then item order, each as "<bullet><section title>: <item label>"
\* followed by the dash and the note only when the note is non-empty; at most the first 80
\* are listed and, when there are F > 80, one footer line states F - 80; with no findings
\* the block and its header are left out.
C21_FindingsBlock ==
    lastOp.op = "buildCheckSummaryText" =>
        LET c == lastOp.check
            lines == lastOp.lines
            P == ListedIn(c)
            F == Cardinality(P)
            shown == IF F > 80 THEN 80 ELSE F
            head == Len(HeaderLines(IF IsNull(c) THEN <<>> ELSE c))
                      + Len(GeneralNotesLines(IF IsNull(c) THEN <<>> ELSE c))
        IN IF F = 0
           THEN /\ FindingsHeaderAt(lines) = {}
                /\ Len(lines) = head + 2
           ELSE /\ FindingsHeaderAt(lines) = {head + 2}
                /\ lines[head + 1] = ""
                /\ \A p \in P :
                      RankIn(P, p) <= 80 =>
                         lines[head + 2 + RankIn(P, p)] =
                            Bullet \o c.sections[p[1]].title \o ": " \o ItemAt(c.sections, p).label
                              \o (IF HasNote(ItemAt(c.sections, p))
                                  THEN NoteDash \o ItemAt(c.sections, p).note ELSE "")
                /\ IF F > 80
                   THEN lines[head + 2 + shown + 1] = "...and " \o ToString(F - 80) \o " more"
                   ELSE TRUE
                /\ Len(lines) = head + 2 + shown + (IF F > 80 THEN 1 ELSE 0) + 2
                /\ lines[Len(lines) - 1] = ""

C21_Witness ==
    /\ lastOp.op = "buildCheckSummaryText"
    /\ Cardinality(ListedIn(lastOp.check)) = 82
    /\ Len(lastOp.check.sections[2].items) = 2
    /\ lastOp.lines[Len(lastOp.lines) - 2] = "...and 2 more"

\* C22: on a store that takes every write, whenever the effects of a handler have run,
\* the stored app record is the text of the in-memory AppState and the stored profile
\* record is the text of the in-memory Profile, after any sequence of saves, deletes,
\* imports, reloads and vehicle edits.
C22_PersistedFollows ==
    rejects = {} =>
        /\ localStorage.app = Text(ToDoc(appState))
        /\ localStorage.profile = Text(profile)

C22_Witness ==
    /\ lastOp.op = "saveVehicle" /\ lastOp.outcome = "added"
    /\ appState.checks # <<>>
    /\ profile # defaultProfile
    /\ localStorage.app = Text(ToDoc(appState))
    /\ localStorage.profile = Text(profile)

\* C23: in every settled state the draft mirrors the current template: the section ids
\* and item ids of the draft, in order, are those of AppState.template.
C23_DraftMirrorsTemplate ==
    /\ Has(appState, "template")
    /\ Shape(draft.sections) = Shape(appState.template.sections)

\* C24: no two checks of the history have the same id, under saveCheck, deleteCheck,
\* single-check import and full import.
C24_CheckIdsUnique ==
    \A i, j \in 1..Len(appState.checks) :
        i # j => IdOf(appState.checks[i]) # IdOf(appState.checks[j])

\* C25: a saved check changes only by being deleted: adding, editing, deleting or
\* selecting a vehicle, and a reload (also one that replaces the template because the
\* stored revision differs), leave every check of the history as it is, field by field,
\* vehicleLabel and summary included.
C25_SavedChecksImmutable ==
    [][lastOp'.op \in {"saveVehicle", "deleteVehicle", "selectActiveVehicle",
                       "startAddVehicle", "startEditVehicle", "cancelVehicleEdit",
                       "setVehicleDraft", "load"}
        => appState'.checks = appState.checks]_vars

C25_Witness ==
    /\ lastOp.op = "deleteVehicle" /\ lastOp.ok
    /\ \E i \in 1..Len(appState.checks) :
          /\ IdOf(appState.checks[i]) \in 1..uidSeq
          /\ appState.checks[i].vehicleId = lastOp.vid
          /\ appState.checks[i].vehicleId \notin VehicleIds(profile)
          /\ appState.checks[i].vehicleLabel = formatVehicleLabel(Vehicles(defaultProfile), lastOp.vid)

\* C26: saving a vehicle in edit mode changes only the vehicles whose id is the edited
\* id: such a vehicle keeps its id and its position and takes the fields of the form; every
\* other vehicle stays as it is and the list keeps its length; when no vehicle has the
\* edited id any more, the list is unchanged.
C26_EditUpdatesOnlyEdited ==
    [][(lastOp'.op = "saveVehicle" /\ lastOp'.outcome = "updated")
        => /\ Len(Vehicles(profile')) = Len(Vehicles(profile))
           /\ \A k \in 1..Len(Vehicles(profile)) :
                 IF Vehicles(profile)[k].id = vehicleModal.editId
                 THEN /\ Vehicles(profile')[k].id = vehicleModal.editId
                      /\ Vehicles(profile')[k].plate = TrimUpper(vehicleModal.draft.plate)
                      /\ Vehicles(profile')[k].make = vehicleModal.draft.make
                      /\ Vehicles(profile')[k].model = vehicleModal.draft.model
                 ELSE Vehicles(profile')[k] = Vehicles(profile)[k]
           /\ (vehicleModal.editId \notin VehicleIds(profile)
                  => Vehicles(profile') = Vehicles(profile))]_vars

C26_Witness ==
    /\ lastOp.op = "saveVehicle" /\ lastOp.outcome = "updated"
    /\ lastOp.id \notin VehicleIds(profile)
    /\ Vehicles(profile) # <<>>

\* C27: the in-memory template is always there and at the current revision, also right
\* after a full import of any accepted payload: appState.template exists and its rev is
\* TEMPLATE_REV.
C27_TemplateAtCurrentRev ==
    /\ Has(appState, "template")
    /\ Has(appState.template, "rev")
    /\ appState.template.rev = TEMPLATE_REV

\* C28: a full import whose payload has no profile leaves the Profile as it is at the
\* moment the read completes: what changed the Profile between the start of the import
\* and its completion is neither lost nor reverted.
C28_ImportKeepsCurrentProfile ==
    [][(/\ lastOp'.op = "onload"
        /\ lastOp'.outcome \in {"full", "threw"}
        /\ ~Has(lastOp'.file.val, "profile"))
        => profile' = profile]_vars

\* C29: the active vehicle selection is always valid: vehicleId is "" or the id of a
\* vehicle of Profile.vehicles, after vehicle add, edit and delete, manual selection and
\* imports, including an import whose profile has no vehicles.
C29_ActiveVehicleValid ==
    vehicleId = "" \/ vehicleId \in VehicleIds(profile)

\* C30: the saved-check viewer follows the history: when the viewer shows the check of
\* id X and a step (deleteCheck, a full import, a reload) leaves no check of id X in the
\* history, then after that step and its effects the viewer is closed and no id is
\* selected.
C30_ViewerFollowsHistory ==
    [][(ViewerShown /\ ~\E i \in 1..Len(appState'.checks) :
                           IdOf(appState'.checks[i]) = savedView.id)
        => savedView' = SavedViewAtRest]_vars

====
